---------------------------- MODULE Spec2Model ----------------------------
(***************************************************************************)
(* A model of the pstree core of orefalo/pstree (Go): the flat process     *)
(* store, makeTreeHierarchy, markProcs / markChildren, dropProcs,          *)
(* getTopPID, getPidIndex and the recursive renderer printTree, as         *)
(* RenderTree runs them.  The store is a function 0..N-1 -> Process, so    *)
(* indices and the "none" value -1 are those of the source.  Strings are   *)
(* sequences of one-byte strings, so that len() and slicing count bytes.   *)
(***************************************************************************)
EXTENDS Integers, Sequences, FiniteSets, TLC

(***************************************************************************)
(* Bounds of the explored inputs.                                          *)
(***************************************************************************)
\* largest store of the family with freely chosen pid / ppid values
MaxProcs == 3
\* largest store of the family of trees with distinct pids
MaxTree == 4

(***************************************************************************)
(* Strings                                                                 *)
(***************************************************************************)
EmptyStr == << >>

StrRoot == <<"r", "o", "o", "t">>
StrBob == <<"b", "o", "b">>
StrInit == <<"i", "n", "i", "t">>
StrSh == <<"s", "h">>
StrBash == <<"b", "a", "s", "h">>

StrEve == <<"e", "v", "e">>
Str1 == <<"1">>
Str7 == <<"7">>

\* strings.Contains(s, sub)
Contains(s, sub) ==
    \E k \in 0..(Len(s) - Len(sub)) : SubSeq(s, k + 1, k + Len(sub)) = sub

\* a prefix that keeps one byte more than asked for
SliceOneMore(s, n) == SubSeq(s, 1, n + 1)

\* a prefix of s: s[:n]
Slice(s, n) == SubSeq(s, 1, n)

DigitChar(d) == CASE d = 0 -> "0" [] d = 1 -> "1" [] d = 2 -> "2" [] d = 3 -> "3"
                  [] d = 4 -> "4" [] d = 5 -> "5" [] d = 6 -> "6" [] d = 7 -> "7"
                  [] d = 8 -> "8" [] d = 9 -> "9"

RECURSIVE Digits(_)
\* the decimal digits of n >= 0, as %d prints them
Digits(n) == IF n < 10 THEN <<DigitChar(n)>>
             ELSE Digits(n \div 10) \o <<DigitChar(n % 10)>>

RECURSIVE Zeros(_)
Zeros(k) == IF k <= 0 THEN << >> ELSE <<"0">> \o Zeros(k - 1)

\* fmt.Sprintf("%d", n)
FmtD(n) == IF n < 0 THEN <<"-">> \o Digits(-n) ELSE Digits(n)

DigitVal(c) == CASE c = "0" -> 0 [] c = "1" -> 1 [] c = "2" -> 2 [] c = "3" -> 3
                 [] c = "4" -> 4 [] c = "5" -> 5 [] c = "6" -> 6 [] c = "7" -> 7
                 [] c = "8" -> 8 [] c = "9" -> 9

RECURSIVE AtoiDigits(_, _)
AtoiDigits(s, acc) ==
    IF s = << >> THEN acc ELSE AtoiDigits(Tail(s), acc * 10 + DigitVal(Head(s)))

\* strconv.Atoi(s): an optional sign and one digit or more, else an error
\* (ok false); the numbers of the model are far from the range error
Atoi(s) ==
    LET body == IF s # << >> /\ Head(s) \in {"+", "-"} THEN Tail(s) ELSE s IN
    IF body = << >> \/ \E k \in 1..Len(body) : body[k] \notin
         {"0", "1", "2", "3", "4", "5", "6", "7", "8", "9"}
    THEN [ok |-> FALSE, val |-> 0]
    ELSE [ok |-> TRUE,
          val |-> IF Head(s) = "-" THEN 0 - AtoiDigits(body, 0)
                  ELSE AtoiDigits(body, 0)]

\* a pid printed with no padding at all, as "%d" would
Fmt05dUnpadded(n) == FmtD(n)

\* fmt.Sprintf("%05d", n): zero padding to a minimum width of 5, the sign
\* counted in the width; a longer number is printed in full
Fmt05d(n) ==
    IF n < 0 THEN <<"-">> \o Zeros(4 - Len(Digits(-n))) \o Digits(-n)
    ELSE Zeros(5 - Len(Digits(n))) \o Digits(n)

(***************************************************************************)
(* structs.go: the character sets                                          *)
(***************************************************************************)
GraphicsASCII == 0
GraphicsPC850 == 1
GraphicsVT100 == 2
GraphicsUTF8 == 3

treeChars ==
    <<  \* ASCII
        [S2 |-> <<"-", "-">>, P |-> <<"-", "+">>, PGL |-> <<"=">>, NPGL |-> <<"-">>,
         BarC |-> <<"|">>, Bar |-> <<"|">>, BarL |-> <<"\\">>,
         SG |-> << >>, EG |-> << >>, Init |-> << >>],
        \* PC850
        [S2 |-> <<"xC4", "xC4">>, P |-> <<"xC4", "xC2">>, PGL |-> <<"xFA">>,
         NPGL |-> <<"xC4">>, BarC |-> <<"xC3">>, Bar |-> <<"xB3">>, BarL |-> <<"xC0">>,
         SG |-> << >>, EG |-> << >>, Init |-> << >>],
        \* VT100
        [S2 |-> <<"q", "q">>, P |-> <<"q", "w">>, PGL |-> <<"x60">>, NPGL |-> <<"q">>,
         BarC |-> <<"t">>, Bar |-> <<"x">>, BarL |-> <<"m">>,
         SG |-> <<"x0E">>, EG |-> <<"x0F">>,
         Init |-> <<"x1B", "(", "B", "x1B", ")", "0">>],
        \* UTF8
        [S2 |-> <<"xE2", "x94", "x80", "xE2", "x94", "x80">>,
         P |-> <<"xE2", "x94", "x80", "xE2", "x94", "xAC">>,
         PGL |-> <<"=">>, NPGL |-> <<"xE2", "x94", "x80">>,
         BarC |-> <<"xE2", "x94", "x9C">>, Bar |-> <<"xE2", "x94", "x82">>,
         BarL |-> <<"xE2", "x94", "x94">>,
         SG |-> << >>, EG |-> << >>, Init |-> << >>] >>

\* config.TreeChar = &treeChars[config.Graphics]
TreeChar(cfg) == treeChars[cfg.Graphics + 1]

(***************************************************************************)
(* structs.go: Process, as the loaders leave it (links none, Print false)  *)
(***************************************************************************)
Process(pid, ppid, pgid, owner, cmd, threads) ==
    [PID |-> pid, PPID |-> ppid, PGID |-> pgid, Owner |-> owner, Cmd |-> cmd,
     ThreadCount |-> threads,
     ParentIdx |-> -1, ChildIdx |-> -1, SisterIdx |-> -1]
      @@ ("Print" :> FALSE)

\* len(procs)
NProc(p) == Cardinality(DOMAIN p)

(***************************************************************************)
(* process.go: lookup by pid, searching from the last record backward      *)
(***************************************************************************)
RECURSIVE getPidIndexFrom(_, _, _)
getPidIndexFrom(p, pid, i) ==
    IF i < 0 THEN -1
    ELSE IF p[i].PID = pid THEN i
    ELSE getPidIndexFrom(p, pid, i - 1)

RECURSIVE getPidIndexForward(_, _, _)
\* a lookup that returns the first record with the pid instead of the last
getPidIndexForward(p, pid, i) ==
    IF i >= NProc(p) THEN -1
    ELSE IF p[i].PID = pid THEN i
    ELSE getPidIndexForward(p, pid, i + 1)

getPidIndexFirst(p, pid) == getPidIndexForward(p, pid, 0)

getPidIndex(p, pid) == getPidIndexFrom(p, pid, NProc(p) - 1)

(***************************************************************************)
(* process.go: makeTreeHierarchy, one iteration of its loop                *)
(***************************************************************************)
RECURSIVE lastSister(_, _)
\* for procs[sister].SisterIdx != -1 { sister = procs[sister].SisterIdx }
lastSister(p, sister) ==
    IF p[sister].SisterIdx = -1 THEN sister
    ELSE lastSister(p, p[sister].SisterIdx)

\* the index of the parent is written into the parentPid of the record
makeTreeIterIntoPPID(p, i) ==
    LET parentIdx == getPidIndex(p, p[i].PPID) IN
    IF parentIdx # i /\ parentIdx # -1
    THEN [p EXCEPT ![i].PPID = parentIdx]
    ELSE p

\* the child is put at the head of the parent's chain instead of its end
makeTreeIterPrepend(p, i) ==
    LET parentIdx == getPidIndex(p, p[i].PPID) IN
    IF parentIdx # i /\ parentIdx # -1
    THEN [p EXCEPT ![i].ParentIdx = parentIdx,
                   ![i].SisterIdx = p[parentIdx].ChildIdx,
                   ![parentIdx].ChildIdx = i]
    ELSE p

\* the else branch is lost: a later child takes the place of the first one
makeTreeIterOverwrite(p, i) ==
    LET parentIdx == getPidIndex(p, p[i].PPID) IN
    IF parentIdx # i /\ parentIdx # -1
    THEN [p EXCEPT ![i].ParentIdx = parentIdx, ![parentIdx].ChildIdx = i]
    ELSE p

makeTreeIter(p, i) ==
    LET parentIdx == getPidIndex(p, p[i].PPID) IN
    IF parentIdx # i /\ parentIdx # -1
    THEN LET p1 == [p EXCEPT ![i].ParentIdx = parentIdx] IN
         IF p1[parentIdx].ChildIdx = -1
         THEN [p1 EXCEPT ![parentIdx].ChildIdx = i]
         ELSE [p1 EXCEPT ![lastSister(p1, p1[parentIdx].ChildIdx)].SisterIdx = i]
    ELSE p

RECURSIVE makeTreeFrom(_, _)
\* the iterations of makeTreeHierarchy's loop from the k-th on
makeTreeFrom(p, k) ==
    IF k >= NProc(p) THEN p ELSE makeTreeFrom(makeTreeIter(p, k), k + 1)

\* makeTreeHierarchy, the whole loop
makeTreeHierarchy(p) == makeTreeFrom(p, 0)

(***************************************************************************)
(* process.go: markChildren                                                *)
(***************************************************************************)
RECURSIVE markChildren(_, _)
RECURSIVE markChildLoop(_, _)
\* for child != -1 { markChildren(child); child = procs[child].SisterIdx }
markChildLoop(p, child) ==
    IF child = -1 THEN p
    ELSE LET p1 == markChildren(p, child) IN markChildLoop(p1, p1[child].SisterIdx)

\* only the record itself is marked, the recursion into its children is lost
markChildrenShallow(p, idx) == [p EXCEPT ![idx].Print = TRUE]

markChildren(p, idx) ==
    markChildLoop([p EXCEPT ![idx].Print = TRUE], p[idx].ChildIdx)

(***************************************************************************)
(* process.go: markProcs, the parts of one iteration of its loop           *)
(***************************************************************************)
\* the criteria without the test that spares the tool's own record
shouldPrintBranchOwnToo(process, cfg, mypid) ==
    \/ cfg.SearchOwner # EmptyStr /\ process.Owner = cfg.SearchOwner
    \/ cfg.UOption /\ process.Owner # StrRoot
    \/ cfg.SearchPid # -1 /\ process.PID = cfg.SearchPid
    \/ cfg.SearchStr # EmptyStr /\ Contains(process.Cmd, cfg.SearchStr)

\* the four criteria of markProcs, combined by or
shouldPrintBranch(process, cfg, mypid) ==
    \/ cfg.SearchOwner # EmptyStr /\ process.Owner = cfg.SearchOwner
    \/ cfg.UOption /\ process.Owner # StrRoot
    \/ cfg.SearchPid # -1 /\ process.PID = cfg.SearchPid
    \/ /\ cfg.SearchStr # EmptyStr
       /\ Contains(process.Cmd, cfg.SearchStr)
       /\ process.PID # mypid

\* the show-all branch: process := procs[i] is a copy of the record, and
\* process.Print = true sets the copy; the store keeps what it had
markShowAll(p, i) ==
    LET process == [p[i] EXCEPT !.Print = TRUE] IN p

\* a walk over the parents that selects none of them
markParentSkipped(p, parent) == p

\* procs[parent].Print = true
markParent(p, parent) == [p EXCEPT ![parent].Print = TRUE]

\* for parent != -1 { procs[parent].Print = true; parent = procs[parent].ParentIdx }
RECURSIVE markParentsFrom(_, _)
markParentsFrom(p, parent) ==
    IF parent = -1 THEN p
    ELSE markParentsFrom(markParent(p, parent), p[parent].ParentIdx)

\* an iteration that leaves a record alone once it is selected
markProcsIterSkipMarked(p, cfg, mypid, i) ==
    IF cfg.AOption THEN markShowAll(p, i)
    ELSE IF ~p[i].Print /\ shouldPrintBranch(p[i], cfg, mypid)
    THEN markChildren(markParentsFrom(p, p[i].ParentIdx), i)
    ELSE p

\* one whole iteration of markProcs' loop, for the record i
markProcsIter(p, cfg, mypid, i) ==
    IF cfg.AOption THEN markShowAll(p, i)
    ELSE IF shouldPrintBranch(p[i], cfg, mypid)
    THEN markChildren(markParentsFrom(p, p[i].ParentIdx), i)
    ELSE p

RECURSIVE markProcsIn(_, _, _, _)
\* the iterations of markProcs for the records of order, one after the other
markProcsIn(p, cfg, mypid, order) ==
    IF order = << >> THEN p
    ELSE markProcsIn(markProcsIter(p, cfg, mypid, Head(order)), cfg, mypid, Tail(order))

(***************************************************************************)
(* process.go: dropProcs, one iteration of its loop                        *)
(***************************************************************************)
RECURSIVE skipUnprinted(_, _)
\* for child != -1 && !procs[child].Print { child = procs[child].SisterIdx }
skipUnprinted(p, child) ==
    IF child # -1 /\ ~p[child].Print THEN skipUnprinted(p, p[child].SisterIdx)
    ELSE child

\* an iteration that stores the link to the sibling of the first child,
\* whether that child prints or not
dropProcsIterAdvance(p, i) ==
    IF p[i].Print /\ p[i].ChildIdx # -1
    THEN [p EXCEPT ![i].ChildIdx = p[p[i].ChildIdx].SisterIdx]
    ELSE p

\* an iteration that cuts the dropped first child off its own chain
dropProcsIterCutsDropped(p, i) ==
    IF p[i].Print /\ p[i].ChildIdx # -1 /\ ~p[p[i].ChildIdx].Print
    THEN [p EXCEPT ![p[i].ChildIdx].SisterIdx = -1]
    ELSE p

\* process := procs[i] is a copy of the record; the two links are computed
\* and assigned to the copy, and the store keeps what it had
dropProcsIter(p, i) ==
    LET process == p[i] IN
    IF process.Print
    THEN LET child == skipUnprinted(p, process.ChildIdx)
             tmp == skipUnprinted(p, process.SisterIdx)
             process1 == [process EXCEPT !.ChildIdx = child, !.SisterIdx = tmp]
         IN p
    ELSE p

RECURSIVE dropProcsFrom(_, _)
\* the iterations of dropProcs' loop from the k-th on
dropProcsFrom(p, k) ==
    IF k >= NProc(p) THEN p ELSE dropProcsFrom(dropProcsIter(p, k), k + 1)

\* dropProcs, the whole loop
dropProcs(p) == dropProcsFrom(p, 0)

(***************************************************************************)
(* process.go: getTopPID                                                   *)
(***************************************************************************)
\* the four loops of getTopPID, in their order
TopCriterion(k, proc) ==
    CASE k = 1 -> proc.PID = 1
      [] k = 2 -> proc.PPID = 0
      [] k = 3 -> proc.PPID = 1
      [] k = 4 -> proc.PID = proc.PPID

RECURSIVE firstWith(_, _, _)
\* for _, proc := range procs { if <criterion k> { return proc.PID } }:
\* the index of the first record with the criterion, -1 when the loop ends
firstWith(p, k, i) ==
    IF i >= NProc(p) THEN -1
    ELSE IF TopCriterion(k, p[i]) THEN i
    ELSE firstWith(p, k, i + 1)

RECURSIVE topFromFirstRecord(_, _)
\* the loops from the k-th on, falling back to the first record of the store
\* where the source exits
topFromFirstRecord(p, k) ==
    IF k > 4 THEN [exit |-> FALSE, pid |-> p[0].PID]
    ELSE LET i == firstWith(p, k, 0) IN
         IF i # -1 THEN [exit |-> FALSE, pid |-> p[i].PID]
         ELSE topFromFirstRecord(p, k + 1)

RECURSIVE topFrom(_, _)
\* the loops from the k-th on; exit is os.Exit(1) after the last one
topFrom(p, k) ==
    IF k > 4 THEN [exit |-> TRUE, pid |-> 0]
    ELSE LET i == firstWith(p, k, 0) IN
         IF i # -1 THEN [exit |-> FALSE, pid |-> p[i].PID]
         ELSE topFrom(p, k + 1)

\* getTopPID with its second loop (PPID == 0) run before its first (PID == 1)
getTopPIDSwapped(p, cfg) ==
    IF cfg.SearchPid # -1 THEN [exit |-> FALSE, pid |-> cfg.SearchPid]
    ELSE LET i == firstWith(p, 2, 0) IN
         IF i # -1 THEN [exit |-> FALSE, pid |-> p[i].PID]
         ELSE topFrom(p, 1)

getTopPID(p, cfg) ==
    IF cfg.SearchPid # -1 THEN [exit |-> FALSE, pid |-> cfg.SearchPid]
    ELSE topFrom(p, 1)

(***************************************************************************)
(* process.go: printTree, the line of a record and the head of its         *)
(* children                                                                *)
(***************************************************************************)
\* a line that draws every record as a leaf
pCharAlwaysLeaf(p, cfg, idx) == TreeChar(cfg).S2

\* if procs[idx].ChildIdx != -1 { pChar = P } else { pChar = S2 }
pChar(p, cfg, idx) ==
    IF p[idx].ChildIdx # -1 THEN TreeChar(cfg).P ELSE TreeChar(cfg).S2

printLine(p, cfg, idx, head) ==
    LET tc == TreeChar(cfg)
        thread == IF p[idx].ThreadCount > 1
                  THEN <<"[">> \o FmtD(p[idx].ThreadCount) \o <<"]">>
                  ELSE EmptyStr
        pgl == IF p[idx].PID = p[idx].PGID THEN tc.PGL ELSE tc.NPGL
        barChar == IF head = EmptyStr THEN EmptyStr
                   ELSE IF p[idx].SisterIdx # -1 THEN tc.BarC
                   ELSE tc.BarL
    IN tc.SG \o head \o barChar \o pChar(p, cfg, idx) \o pgl \o tc.EG \o <<" ">>
       \o Fmt05d(p[idx].PID) \o <<" ">> \o p[idx].Owner \o <<" ">>
       \o thread \o p[idx].Cmd

\* the head that the source's C original gives the children of the root: one space
childHeadIndented(p, cfg, idx, head) ==
    IF head = EmptyStr THEN <<" ">>
    ELSE IF p[idx].SisterIdx # -1 THEN head \o TreeChar(cfg).Bar \o <<" ">>
    ELSE head \o <<" ", " ">>

childHead(p, cfg, idx, head) ==
    IF head = EmptyStr THEN EmptyStr
    ELSE IF p[idx].SisterIdx # -1 THEN head \o TreeChar(cfg).Bar \o <<" ">>
    ELSE head \o <<" ", " ">>

\* a return that leaves the counter as it is
depthAfterReturnKept(depth) == depth

\* atLDepth-- at the end of printTree
depthAfterReturn(depth) == depth - 1

\* a depth test that lets one level more through
atMaxDepthLate(depth, cfg) == depth = cfg.MaxLDepth + 1

\* if atLDepth == config.MaxLDepth { return }
atMaxDepth(depth, cfg) == depth = cfg.MaxLDepth

\* a printTree that never looks at the Print flag
printTreeRejectsNever(p, idx, head) == FALSE

\* if head == "" && !procs[idx].Print { return }
printTreeRejects(p, idx, head) == head = EmptyStr /\ ~p[idx].Print

(***************************************************************************)
(* The inputs: stores as a loader leaves them, and configurations          *)
(***************************************************************************)
\* a root-owned group leader with one thread
Daemon(pid, ppid) == Process(pid, ppid, pid, StrRoot, StrInit, 1)
\* a user's process with two threads, in its parent's process group
UserProc(pid, ppid) == Process(pid, ppid, ppid, StrBob, StrBash, 2)

PidValues == {1, 2, 3}
PpidValues == {0, 1, 2, 3}

\* a store of n records with any pids and ppids, equal pids included; the
\* records with pid 2 are the user's
FreeStore(n, pids, ppids) ==
    [k \in 0..(n - 1) |->
        IF pids[k] = 2 THEN UserProc(pids[k], ppids[k])
        ELSE Daemon(pids[k], ppids[k])]

\* a store of n records with the pids 1..n in store order; the records of
\* users are a user's processes, the others daemons
TreeStore(n, ppids, users) ==
    [k \in 0..(n - 1) |->
        IF k \in users THEN UserProc(k + 1, ppids[k])
        ELSE Daemon(k + 1, ppids[k])]

\* init, a daemon, the user's shell under it with a child of its own, and a
\* second daemon under init
DeepStore == TreeStore(5, [k \in 0..4 |-> IF k = 4 THEN 1 ELSE k], {2})

\* a chain five levels deep
ChainStore == TreeStore(5, [k \in 0..4 |-> k], {4})

\* init and a process whose pid has six digits
BigPidStore ==
    [k \in 0..1 |-> IF k = 0 THEN Daemon(1, 0) ELSE UserProc(100000, 1)]

ExampleStores == {DeepStore, ChainStore, BigPidStore}

\* main's init(): nothing selected, no pid pinned, 100 levels, ASCII; and
\* the 80 columns of getTerminalWidth's default
DefaultConfig ==
    [AOption |-> FALSE, UOption |-> FALSE, WOption |-> FALSE,
     SearchOwner |-> EmptyStr,
     SearchPid |-> -1, SearchStr |-> EmptyStr,
     MaxLDepth |-> 100, Columns |-> 80, Graphics |-> GraphicsASCII]

\* the configurations run on the stores with freely chosen pids
FreeConfigs ==
    { [DefaultConfig EXCEPT !.SearchStr = StrSh],
      [DefaultConfig EXCEPT !.SearchPid = 2] }

\* the configurations run on the trees
TreeConfigs ==
    { [DefaultConfig EXCEPT !.SearchStr = StrSh],
      [DefaultConfig EXCEPT !.SearchStr = StrSh, !.MaxLDepth = 2],
      [DefaultConfig EXCEPT !.AOption = TRUE],
      [DefaultConfig EXCEPT !.SearchPid = 2],
      [DefaultConfig EXCEPT !.SearchOwner = StrBob, !.MaxLDepth = 1],
      [DefaultConfig EXCEPT !.UOption = TRUE, !.MaxLDepth = 3, !.Columns = 10,
                            !.Graphics = GraphicsUTF8],
      [DefaultConfig EXCEPT !.SearchStr = StrSh, !.MaxLDepth = 0,
                            !.Graphics = GraphicsVT100] }

\* the configurations of the runs that look at markProcs alone: a text, a
\* pid together with an owner, no root-owned, show-all
MarkConfigs ==
    { [DefaultConfig EXCEPT !.SearchStr = StrSh],
      [DefaultConfig EXCEPT !.SearchPid = 2, !.SearchOwner = StrBob],
      [DefaultConfig EXCEPT !.UOption = TRUE],
      [DefaultConfig EXCEPT !.AOption = TRUE] }

\* the configurations run on the example stores: those of the trees, and
\* two narrow terminals
ExampleConfigs ==
    TreeConfigs \cup
    { [DefaultConfig EXCEPT !.SearchOwner = StrBob, !.Columns = 10],
      [DefaultConfig EXCEPT !.SearchOwner = StrBob, !.Columns = 1,
                            !.Graphics = GraphicsPC850] }

\* os.Getpid() and os.Getppid() of the run
OwnPid == 4
OwnParentPid == 3

(***************************************************************************)
(* structs.go: the width of the terminal                                   *)
(***************************************************************************)
maxLine == 8192

\* getTerminalWidth: maxLine - 1 with the wide option, else what the
\* terminal or the COLUMNS variable gave (80 when neither gave a width)
getTerminalWidth(cfg, detected) == IF cfg.WOption THEN maxLine - 1 ELSE detected

\* CalculateTerminalWidth: the value it leaves in config.Columns
CalculateTerminalWidth(cfg, detected) ==
    LET w == getTerminalWidth(cfg, detected)
        c1 == IF w = 0 THEN maxLine - 1 ELSE w
        c2 == c1 + Len(TreeChar(cfg).SG) + Len(TreeChar(cfg).EG)
    IN IF c2 >= maxLine THEN maxLine - 1 ELSE c2

\* the widths the detection gives in the model: none, a negative COLUMNS, a
\* narrow and a usual terminal, and more than maxLine
Widths == {0, -5, 10, 80, 9000}

(***************************************************************************)
(* main: the inputs of a run of the command                                *)
(***************************************************************************)
\* the users user.Lookup finds
KnownUsers == {StrRoot, StrBob}

\* the flags as cobra leaves them in config: -u defaults to the current
\* user (the empty string when that is unknown)
MainFlags ==
    { [DefaultConfig EXCEPT !.SearchOwner = StrBob, !.Columns = 0],
      [DefaultConfig EXCEPT !.SearchOwner = StrBob, !.Columns = 0, !.Graphics = 4],
      [DefaultConfig EXCEPT !.SearchOwner = StrBob, !.Columns = 0, !.Graphics = -1],
      [DefaultConfig EXCEPT !.SearchOwner = StrBob, !.Columns = 0, !.AOption = TRUE],
      [DefaultConfig EXCEPT !.SearchOwner = StrEve, !.Columns = 0],
      [DefaultConfig EXCEPT !.UOption = TRUE, !.Columns = 0,
                            !.Graphics = GraphicsUTF8],
      [DefaultConfig EXCEPT !.SearchOwner = StrRoot, !.Columns = 0,
                            !.WOption = TRUE, !.Graphics = GraphicsVT100] }

\* the positional arguments: none, a pid of the table, a pid that is not in
\* it, a text
MainArgs == { << >>, <<Str1>>, <<Str7>>, <<StrSh>> }

\* the process tables a loader returns: a chain with the parent of the tool
\* in it, a table without it, two records that name each other as parent,
\* and an empty table
MainStores ==
    { TreeStore(3, [k \in 0..2 |-> k], {1}),
      TreeStore(2, [k \in 0..1 |-> k], {1}),
      FreeStore(2, [k \in 0..1 |-> k + 1], [k \in 0..1 |-> 2 - k]),
      << >> }

\* the first n records of a table
Prefix(store, n) == [k \in 0..(n - 1) |-> store[k]]

\* getProcessesLinux: it fails before it assigns procs, and a table it reads
\* has one thread per record (proc.ThreadCount = 1)
getProcessesLinux(before) ==
    {[err |-> TRUE, procs |-> before]}
      \cup { [err |-> FALSE,
              procs |-> [k \in DOMAIN s |-> [s[k] EXCEPT !.ThreadCount = 1]]] :
              s \in MainStores }

\* getProcesses: it fails before it assigns procs (the pipe, the start of
\* ps), with procs empty (no header line) or, when the scanner ends on an
\* error, with the records appended so far; else it returns the table
getProcesses(before) ==
    {[err |-> TRUE, procs |-> before]}
      \cup UNION { { [err |-> TRUE, procs |-> Prefix(s, n)] : n \in 0..NProc(s) } :
                   s \in MainStores }
      \cup { [err |-> FALSE, procs |-> s] : s \in MainStores }

\* if runtime.GOOS == "linux" { getProcessesLinux() } else { getProcesses() }
Loads(before) == getProcessesLinux(before) \cup getProcesses(before)

(***************************************************************************)
(* The state                                                               *)
(***************************************************************************)
VARIABLES
    procs,      \* the store: 0..N-1 -> Process
    config,     \* the configuration
    myPID,      \* the pid of the tool itself
    pc,         \* where the run is: main (RunE is to run), render, build, mark,
                \* markParents, drop, root, print (the phases of RenderTree),
                \* done (RenderTree has returned), quit (RunE has returned
                \* nil without rendering), exit1 (os.Exit(1)), panic
    i,          \* the index of the running loop over the store
    parent,     \* markProcs' walk up the ParentIdx links
    atLDepth,   \* the shared depth counter
    stack,      \* the calls of printTree in progress, the running one last
    out,        \* the lines printed, with the record and head of each
    initOut,    \* the bytes written to standard output before the lines
    topPID,     \* what getTopPID() returned
    rootIdx,    \* RenderTree's rootIdx
    myPPID,     \* the pid of the parent of the tool
    args,       \* the positional arguments of the command
    logged,     \* the messages of log.Errorf, in their order
    entry       \* the function the run was entered at: main or RenderTree

vars == <<procs, config, myPID, pc, i, parent, atLDepth, stack, out, topPID, rootIdx,
          myPPID, args, logged, entry, initOut>>

N == NProc(procs)

\* the state RenderTree starts from, for a store and a configuration
Start(store, cfg) ==
    /\ procs = store
    /\ config = cfg
    /\ myPID = OwnPid
    /\ pc = "render"
    /\ i = 0
    /\ parent = -1
    /\ atLDepth = 0
    /\ stack = << >>
    /\ out = << >>
    /\ initOut = EmptyStr
    /\ topPID = -1
    /\ rootIdx = -1
    /\ myPPID = OwnParentPid
    /\ args = << >>
    /\ logged = << >>
    /\ entry = "RenderTree"

\* trees of up to MaxTree records, the parent of a record an earlier record
\* or none (ppid 0), under every configuration of TreeConfigs
InitTree ==
    \E n \in 1..MaxTree :
      \E ppids \in [0..(n - 1) -> 0..(n - 1)] :
        /\ \A k \in 0..(n - 1) : ppids[k] <= k
        /\ \E users \in SUBSET (0..(n - 1)), cfg \in TreeConfigs :
              Start(TreeStore(n, ppids, users), cfg)

InitExample == \E store \in ExampleStores, cfg \in ExampleConfigs : Start(store, cfg)

\* stores of up to MaxProcs records with freely chosen pids and ppids
\* (parents before or after their children, equal pids, cycles)
InitFree ==
    \E n \in 1..MaxProcs :
      \E pids \in [0..(n - 1) -> PidValues], ppids \in [0..(n - 1) -> PpidValues],
         cfg \in FreeConfigs :
           Start(FreeStore(n, pids, ppids), cfg)

\* a run of the command: the flags parsed, no process read yet
InitMain ==
    \E flags \in MainFlags, a \in MainArgs :
      /\ procs = << >>
      /\ config = flags
      /\ myPID = OwnPid
      /\ myPPID = OwnParentPid
      /\ args = a
      /\ pc = "main"
      /\ i = 0
      /\ parent = -1
      /\ atLDepth = 0
      /\ stack = << >>
      /\ out = << >>
      /\ initOut = EmptyStr
      /\ topPID = -1
      /\ rootIdx = -1
      /\ logged = << >>
      /\ entry = "main"

Init == InitTree \/ InitExample \/ InitFree \/ InitMain

\* the trees of InitTree under the configurations of MarkConfigs
InitMarkTree ==
    \E n \in 1..MaxTree :
      \E ppids \in [0..(n - 1) -> 0..(n - 1)] :
        /\ \A k \in 0..(n - 1) : ppids[k] <= k
        /\ \E users \in SUBSET (0..(n - 1)), cfg \in MarkConfigs :
              Start(TreeStore(n, ppids, users), cfg)

InitMark == InitMarkTree \/ InitFree \/ InitMain

(***************************************************************************)
(* main: RunE up to its call of RenderTree                                 *)
(***************************************************************************)
\* if len(args) == 1 { ... }: a number is the pid to start from, anything
\* else the text to look for
parseArgs(cfg, a) ==
    IF Len(a) = 1
    THEN IF Atoi(a[1]).ok
         THEN [cfg EXCEPT !.SearchStr = EmptyStr, !.SearchPid = Atoi(a[1]).val]
         ELSE [cfg EXCEPT !.SearchStr = a[1], !.SearchPid = -1]
    ELSE cfg

\* if config.SearchPid == -1 { config.SearchPid = myPPID }
defaultSearchPid(cfg, ppid) ==
    IF cfg.SearchPid = -1 THEN [cfg EXCEPT !.SearchPid = ppid] ELSE cfg

\* config.Graphics < 0 || config.Graphics >= len(treeChars)
invalidGraphics(cfg) == cfg.Graphics < 0 \/ cfg.Graphics >= Len(treeChars)

\* if config.AOption { config.SearchOwner = ""; config.SearchPid = -1 }
showAllResets(cfg) ==
    IF cfg.AOption THEN [cfg EXCEPT !.SearchOwner = EmptyStr, !.SearchPid = -1] ELSE cfg

\* RunE: the arguments, the graphics check, the owner check, the load, the
\* fallback from a pid that is not in the table to a text, the width
RunE ==
    /\ pc = "main"
    /\ LET c2 == defaultSearchPid(parseArgs(config, args), myPPID) IN
       IF invalidGraphics(c2)
       THEN \* log.Errorf("invalid graphics parameter"); return nil
            /\ logged' = Append(logged, "invalid graphics parameter")
            /\ config' = c2
            /\ pc' = "quit"
            /\ procs' = procs
       ELSE LET c3 == showAllResets(c2) IN
            IF c3.SearchOwner # EmptyStr /\ c3.SearchOwner \notin KnownUsers
            THEN \* return err, and main logs it and calls os.Exit(1)
                 /\ logged' = logged \o <<"user does not exist", "Error">>
                 /\ config' = c3
                 /\ pc' = "exit1"
                 /\ procs' = procs
            ELSE LET c4 == IF c3.SearchOwner # EmptyStr
                           THEN [c3 EXCEPT !.AOption = FALSE] ELSE c3 IN
                 \E load \in Loads(procs), detected \in Widths :
                   LET store == load.procs IN
                   IF load.err
                   THEN \* return err, and main logs it and calls os.Exit(1)
                        /\ logged' = Append(logged, "Error")
                        /\ config' = c4
                        /\ pc' = "exit1"
                        /\ procs' = store
                   ELSE IF NProc(store) = 0
                   THEN /\ logged' = Append(logged, "no processes read")
                        /\ config' = c4
                        /\ pc' = "quit"
                        /\ procs' = store
                   ELSE IF /\ c4.SearchPid # -1
                           /\ getPidIndex(store, c4.SearchPid) = -1
                           /\ args = << >>
                   THEN \* config.SearchStr = args[0] with no argument
                        /\ logged' = logged
                        /\ config' = c4
                        /\ pc' = "panic"
                        /\ procs' = store
                   ELSE LET c5 == IF /\ c4.SearchPid # -1
                                     /\ getPidIndex(store, c4.SearchPid) = -1
                                  THEN [c4 EXCEPT !.SearchStr = args[1],
                                                  !.SearchPid = -1]
                                  ELSE c4 IN
                        /\ logged' = logged
                        /\ config' = [c5 EXCEPT !.Columns =
                                         CalculateTerminalWidth(c5, detected)]
                        /\ pc' = "render"
                        /\ procs' = store
    /\ UNCHANGED <<initOut, entry, myPID, myPPID, args, i, parent, atLDepth, stack, out, topPID, rootIdx>>

(***************************************************************************)
(* RenderTree: the initialization string                                   *)
(***************************************************************************)
\* fmt.Print(config.TreeChar.Init), before the tree is built
RenderTreeStart ==
    /\ pc = "render"
    /\ initOut' = initOut \o TreeChar(config).Init
    /\ pc' = "build"
    /\ UNCHANGED <<entry, myPPID, args, logged, procs, config, myPID, i, parent, atLDepth,
                   stack, out, topPID, rootIdx>>

(***************************************************************************)
(* RenderTree: makeTreeHierarchy                                           *)
(***************************************************************************)
\* one iteration of "for i := range procs"; after the last, markProcs begins
MakeTreeHierarchyStep ==
    /\ pc = "build"
    /\ procs' = makeTreeIter(procs, i)
    /\ IF i + 1 < N THEN i' = i + 1 /\ pc' = pc
       ELSE i' = 0 /\ pc' = "mark"
    /\ UNCHANGED <<initOut, entry, myPPID, args, logged, config, myPID, parent, atLDepth, stack, out, topPID, rootIdx>>

(***************************************************************************)
(* RenderTree: markProcs                                                   *)
(***************************************************************************)
\* one iteration of "for i := range procs", up to the walk over the parents
MarkProcsStep ==
    /\ pc = "mark"
    /\ IF config.AOption
       THEN /\ procs' = markShowAll(procs, i)
            /\ parent' = parent
            /\ IF i + 1 < N THEN i' = i + 1 /\ pc' = pc
               ELSE i' = 0 /\ pc' = "drop"
       ELSE IF shouldPrintBranch(procs[i], config, myPID)
       THEN /\ parent' = procs[i].ParentIdx
            /\ pc' = "markParents"
            /\ UNCHANGED <<procs, i>>
       ELSE /\ UNCHANGED <<procs, parent>>
            /\ IF i + 1 < N THEN i' = i + 1 /\ pc' = pc
               ELSE i' = 0 /\ pc' = "drop"
    /\ UNCHANGED <<initOut, entry, myPPID, args, logged, config, myPID, atLDepth, stack, out, topPID, rootIdx>>

\* one iteration of "for parent != -1", and after it markChildren(i) and the
\* end of the iteration of markProcs
MarkParentsStep ==
    /\ pc = "markParents"
    /\ IF parent # -1
       THEN /\ procs' = markParent(procs, parent)
            /\ parent' = procs[parent].ParentIdx
            /\ UNCHANGED <<pc, i>>
       ELSE /\ procs' = markChildren(procs, i)
            /\ parent' = parent
            /\ IF i + 1 < N THEN i' = i + 1 /\ pc' = "mark"
               ELSE i' = 0 /\ pc' = "drop"
    /\ UNCHANGED <<initOut, entry, myPPID, args, logged, config, myPID, atLDepth, stack, out, topPID, rootIdx>>

(***************************************************************************)
(* RenderTree: dropProcs                                                   *)
(***************************************************************************)
DropProcsStep ==
    /\ pc = "drop"
    /\ procs' = dropProcsIter(procs, i)
    /\ IF i + 1 < N THEN i' = i + 1 /\ pc' = pc
       ELSE i' = 0 /\ pc' = "root"
    /\ UNCHANGED <<initOut, entry, myPPID, args, logged, config, myPID, parent, atLDepth, stack, out, topPID, rootIdx>>

(***************************************************************************)
(* RenderTree: rootIdx := getPidIndex(getTopPID()) and the first call of   *)
(* the renderer on it with an empty head                                   *)
(***************************************************************************)
Frame(idx, head, depth) ==
    [idx |-> idx, head |-> head, nhead |-> EmptyStr, child |-> -1,
     at |-> "enter", depth0 |-> depth]

\* printTree2(rootIdx), a function no source file defines: the renderer's
\* walk from a root index, the root's prefix empty, which is the call
\* printTree(rootIdx, "") that begins; depth is the counter at the call
printTree2(idx, depth) == <<Frame(idx, EmptyStr, depth)>>

GetTopPIDStep ==
    /\ pc = "root"
    /\ LET top == getTopPID(procs, config) IN
       IF top.exit
       THEN \* log.Errorf("pstree: No process found ...") and os.Exit(1)
            /\ pc' = "exit1"
            /\ logged' = Append(logged, "no process found")
            /\ UNCHANGED <<topPID, rootIdx, stack>>
       ELSE /\ topPID' = top.pid
            /\ logged' = logged
            /\ rootIdx' = getPidIndex(procs, top.pid)
            /\ IF rootIdx' # -1
               THEN /\ stack' = printTree2(rootIdx', atLDepth)
                    /\ pc' = "print"
               ELSE /\ stack' = stack
                    /\ pc' = "done"
    /\ UNCHANGED <<initOut, entry, myPPID, args, procs, config, myPID, i, parent, atLDepth, out>>

(***************************************************************************)
(* printTree, call by call                                                 *)
(***************************************************************************)
Top == stack[Len(stack)]

\* the stack after the running call returns: its caller goes on with
\* child = procs[child].SisterIdx
Returned ==
    LET rest == SubSeq(stack, 1, Len(stack) - 1) IN
    IF rest = << >> THEN rest
    ELSE [rest EXCEPT ![Len(rest)].child = procs[rest[Len(rest)].child].SisterIdx]

\* the start of a call: the two early returns, else the counter goes up and
\* the line is printed, cut to Columns-1 bytes
PrintTreeEnter ==
    /\ pc = "print"
    /\ Top.at = "enter"
    /\ IF printTreeRejects(procs, Top.idx, Top.head) \/ atMaxDepth(atLDepth, config)
       THEN /\ stack' = Returned
            /\ pc' = IF Len(stack) = 1 THEN "done" ELSE pc
            /\ UNCHANGED <<atLDepth, out>>
       ELSE LET line == printLine(procs, config, Top.idx, Top.head) IN
            /\ atLDepth' = atLDepth + 1
            /\ IF Len(line) > config.Columns - 1 /\ config.Columns - 1 < 0
               THEN \* out[:config.Columns-1] with a negative bound
                    /\ pc' = "panic"
                    /\ UNCHANGED <<stack, out>>
               ELSE /\ out' = Append(out,
                          [idx |-> Top.idx, head |-> Top.head,
                           line |-> IF Len(line) > config.Columns - 1
                                    THEN Slice(line, config.Columns - 1)
                                    ELSE line])
                    /\ stack' = [stack EXCEPT ![Len(stack)] =
                          [@ EXCEPT !.at = "loop",
                                    !.nhead = childHead(procs, config, Top.idx, Top.head),
                                    !.child = procs[Top.idx].ChildIdx]]
                    /\ pc' = pc
    /\ UNCHANGED <<initOut, entry, myPPID, args, logged, procs, config, myPID, i, parent, topPID, rootIdx>>

\* for child != -1 { printTree(child, nhead) ... }
PrintTreeCall ==
    /\ pc = "print"
    /\ Top.at = "loop"
    /\ Top.child # -1
    /\ stack' = Append(stack, Frame(Top.child, Top.nhead, atLDepth))
    /\ UNCHANGED <<initOut, entry, myPPID, args, logged, procs, config, myPID, pc, i, parent, atLDepth, out, topPID, rootIdx>>

\* the end of the loop over the children: atLDepth-- and return
PrintTreeExit ==
    /\ pc = "print"
    /\ Top.at = "loop"
    /\ Top.child = -1
    /\ atLDepth' = depthAfterReturn(atLDepth)
    /\ stack' = Returned
    /\ pc' = IF Len(stack) = 1 THEN "done" ELSE pc
    /\ UNCHANGED <<initOut, entry, myPPID, args, logged, procs, config, myPID, i, parent, out, topPID, rootIdx>>

Next ==
    \/ RunE
    \/ RenderTreeStart
    \/ MakeTreeHierarchyStep
    \/ MarkProcsStep
    \/ MarkParentsStep
    \/ DropProcsStep
    \/ GetTopPIDStep
    \/ PrintTreeEnter
    \/ PrintTreeCall
    \/ PrintTreeExit

Spec == Init /\ [][Next]_vars

\* the same runs from the stores and configurations of InitMark
SpecMark == InitMark /\ [][Next]_vars

\* the run goes on as long as it has a step to take
FairSpec == Spec /\ WF_vars(Next)

(***************************************************************************)
(* What the properties below speak of                                      *)
(***************************************************************************)
Idx == DOMAIN procs

RECURSIVE ChainFrom(_, _, _)
\* the records of a sibling chain from c on, in chain order (at most fuel)
ChainFrom(p, c, fuel) ==
    IF c = -1 \/ fuel = 0 THEN << >>
    ELSE <<c>> \o ChainFrom(p, p[c].SisterIdx, fuel - 1)

\* the children of r as the links give them: r's first child and its chain
ChildSeq(p, r) == ChainFrom(p, p[r].ChildIdx, NProc(p))
Children(p, r) == { ChildSeq(p, r)[k] : k \in 1..Len(ChildSeq(p, r)) }

\* the highest index of a record with the pid, -1 when there is none
LastWithPid(p, pid) ==
    IF \E k \in DOMAIN p : p[k].PID = pid
    THEN CHOOSE k \in DOMAIN p :
            p[k].PID = pid /\ \A j \in DOMAIN p : p[j].PID = pid => j <= k
    ELSE -1

\* makeTreeHierarchy has just returned
AfterBuild == pc = "mark" /\ i = 0
\* markProcs has just returned
AfterMark == pc = "drop" /\ i = 0
\* dropProcs has just returned
AfterDrop == pc = "root"
\* RenderTree has returned
Rendered == pc = "done"
\* the run is over
Finished == pc \in {"done", "quit", "exit1", "panic"}
\* the exit status of the process: 0 when main returns, 1 from os.Exit(1),
\* 2 from a panic; -1 while the run goes on
ExitStatus ==
    CASE pc \in {"done", "quit"} -> 0
      [] pc = "exit1" -> 1
      [] pc = "panic" -> 2
      [] OTHER -> -1

(***************************************************************************)
(* C1 - tree shape after makeTreeHierarchy                                 *)
(***************************************************************************)
\* C1, as claimed: after makeTreeHierarchy on a store whose links all started
\* as none, every record whose parentPid is another record's pid has a
\* parentIndex at a record with that pid, and the records on the child chain
\* of any record r are exactly the records whose parentPid is r's pid, the
\* self-parented ones (pid = parentPid) left out.
C1_TreeShapeAsClaimed ==
    AfterBuild =>
      \A r \in Idx :
        /\ (procs[r].PID # procs[r].PPID /\ \E k \in Idx : procs[k].PID = procs[r].PPID)
              => /\ procs[r].ParentIdx \in Idx
                 /\ procs[procs[r].ParentIdx].PID = procs[r].PPID
        /\ Children(procs, r) =
              { j \in Idx : procs[j].PPID = procs[r].PID /\ procs[j].PID # procs[j].PPID }

\* C1, amended: after makeTreeHierarchy, the parentIndex of a record is the
\* slot of the last record whose pid is its parentPid, or none when no record
\* has that pid or that last record is the record itself; and the child chain
\* of a record r holds exactly the other records whose parentPid is r's pid
\* when r is the last record with its pid, and nothing when a later record
\* has the same pid.
C1_TreeShape ==
    AfterBuild =>
      \A r \in Idx :
        /\ procs[r].ParentIdx =
              IF LastWithPid(procs, procs[r].PPID) = r THEN -1
              ELSE LastWithPid(procs, procs[r].PPID)
        /\ Children(procs, r) =
              IF LastWithPid(procs, procs[r].PID) = r
              THEN { j \in Idx \ {r} : procs[j].PPID = procs[r].PID }
              ELSE {}
        /\ Len(ChildSeq(procs, r)) = Cardinality(Children(procs, r))

\* a store where a later record repeats the pid of a self-parented one, built:
\* the later record has two children, the self-parented record among them
C1_Witness ==
    /\ AfterBuild
    /\ \E a, b, c \in Idx :
         /\ a < b /\ c # a /\ c # b
         /\ procs[a].PID = procs[b].PID
         /\ procs[a].PPID = procs[a].PID
         /\ procs[b].PPID = 0
         /\ procs[c].PPID = procs[b].PID
         /\ Children(procs, b) = {a, c}
         /\ Children(procs, a) = {}

(***************************************************************************)
(* C2 - the tie-break between records with the same pid                    *)
(***************************************************************************)
\* C2, as claimed: when two records share a pid, every record whose parentPid
\* is that pid has the later of the two as its parentIndex, is on the later
\* one's child chain and is not on the earlier one's.
C2_LaterOfTwoAsClaimed ==
    AfterBuild =>
      \A a, b \in Idx :
        (a < b /\ procs[a].PID = procs[b].PID) =>
          \A c \in Idx :
            procs[c].PPID = procs[b].PID =>
              /\ procs[c].ParentIdx = b
              /\ c \in Children(procs, b)
              /\ c \notin Children(procs, a)

\* C2, amended: when several records share a pid, every record whose
\* parentPid is that pid, other than the last record with the pid itself, has
\* the last record with the pid as its parentIndex, is on its child chain and
\* is on the child chain of no earlier record with the pid.
C2_LastOfSamePid ==
    AfterBuild =>
      \A a, b \in Idx :
        (a < b /\ procs[a].PID = procs[b].PID /\ LastWithPid(procs, procs[b].PID) = b) =>
          \A c \in Idx \ {b} :
            procs[c].PPID = procs[b].PID =>
              /\ procs[c].ParentIdx = b
              /\ c \in Children(procs, b)
              /\ c \notin Children(procs, a)

\* two records with one pid, the later of them self-parented, and a third
\* record with that parentPid: the third is the child of the later one, which
\* itself is nobody's child
C2_Witness ==
    /\ AfterBuild
    /\ \E a, b, c \in Idx :
         /\ a < b /\ c # a /\ c # b
         /\ procs[a].PID = procs[b].PID
         /\ procs[b].PPID = procs[b].PID
         /\ procs[c].PPID = procs[b].PID
         /\ procs[c].ParentIdx = b
         /\ procs[b].ParentIdx = -1
         /\ Children(procs, b) = {c}

(***************************************************************************)
(* C3 - what markProcs selects                                             *)
(***************************************************************************)
RECURSIVE UpFrom(_, _, _)
\* the records met walking the ParentIdx links from x on (at most fuel)
UpFrom(p, x, fuel) ==
    IF x = -1 \/ fuel = 0 THEN {}
    ELSE {x} \cup UpFrom(p, p[x].ParentIdx, fuel - 1)

Ancestors(p, r) == UpFrom(p, p[r].ParentIdx, NProc(p))
Descendants(p, r) == { j \in DOMAIN p : r \in Ancestors(p, j) }

\* the records one of the active criteria holds for
BaseMatches == { r \in Idx : shouldPrintBranch(procs[r], config, myPID) }
Selected == { r \in Idx : procs[r].Print }

\* C3: with show-all off, after markProcs the selected records are exactly
\* the base matches, their ancestors and their descendants; so a single
\* nested match selects its ancestors and descendants and nothing of a
\* sibling subtree.
C3_SelectionIsMatchesWithKin ==
    (AfterMark /\ ~config.AOption) =>
      Selected =
        BaseMatches
          \cup UNION { Ancestors(procs, b) : b \in BaseMatches }
          \cup UNION { Descendants(procs, b) : b \in BaseMatches }

\* a substring search with one match, two levels below its root and with a
\* child of its own, marked: a record under one of its ancestors, outside
\* its line, is not selected
C3_Witness ==
    /\ AfterMark
    /\ ~config.AOption
    /\ config.SearchStr # EmptyStr
    /\ \E b \in Idx :
         /\ BaseMatches = {b}
         /\ Cardinality(Ancestors(procs, b)) >= 2
         /\ Descendants(procs, b) # {}
         /\ Selected = {b} \cup Ancestors(procs, b) \cup Descendants(procs, b)
         /\ \E s \in Idx \ Selected : procs[s].ParentIdx \in Ancestors(procs, b)

(***************************************************************************)
(* C4 - show-all                                                           *)
(***************************************************************************)
\* C4: with show-all on, after markProcs every record of the store is
\* selected.
C4_ShowAllSelectsAll ==
    (AfterMark /\ config.AOption) => \A r \in Idx : procs[r].Print

(***************************************************************************)
(* C5 - the links after dropProcs                                          *)
(***************************************************************************)
\* the store with the links the tree builder gave it, the flags as they are
BeforeDrop ==
    makeTreeHierarchy([k \in Idx |->
        [procs[k] EXCEPT !.ParentIdx = -1, !.ChildIdx = -1, !.SisterIdx = -1]])

\* the first selected record of a chain, -1 when it has none
FirstSelected(chain) ==
    IF \E k \in 1..Len(chain) : procs[chain[k]].Print
    THEN chain[CHOOSE k \in 1..Len(chain) :
                  /\ procs[chain[k]].Print
                  /\ \A j \in 1..(k - 1) : ~procs[chain[j]].Print]
    ELSE -1

\* C5: after dropProcs, the firstChildIndex of every selected record is the
\* first selected record of the child chain it had before, and its
\* nextSiblingIndex the next selected record of the sibling chain it had
\* before (none when there is no such record); so the links of a selected
\* record lead to selected records only.
C5_LinksSkipUnselected ==
    AfterDrop =>
      \A r \in Selected :
        /\ procs[r].ChildIdx =
              FirstSelected(ChainFrom(BeforeDrop, BeforeDrop[r].ChildIdx, N))
        /\ procs[r].SisterIdx =
              FirstSelected(ChainFrom(BeforeDrop, BeforeDrop[r].SisterIdx, N))
        /\ procs[r].ChildIdx \in Selected \cup {-1}
        /\ procs[r].SisterIdx \in Selected \cup {-1}

(***************************************************************************)
(* C6 - the root getTopPID picks                                           *)
(***************************************************************************)
\* getTopPID has returned a pid
RootChosen == pc \in {"print", "done"} \/ (pc = "panic" /\ stack # << >>)

\* C6: with no pid pinned, getTopPID returns the pid of the first record of
\* the store with the first of the criteria pid = 1, parentPid = 0,
\* parentPid = 1, pid = parentPid that any record has (so 1 whenever a record
\* has pid 1); with a pid pinned it returns that pid.
C6_RootPriority ==
    RootChosen =>
      LET Has(k, r) == CASE k = 1 -> procs[r].PID = 1
                         [] k = 2 -> procs[r].PPID = 0
                         [] k = 3 -> procs[r].PPID = 1
                         [] k = 4 -> procs[r].PID = procs[r].PPID
      IN IF config.SearchPid # -1 THEN topPID = config.SearchPid
         ELSE /\ \E k \in 1..4 :
                   /\ \E r \in Idx : Has(k, r)
                   /\ \A j \in 1..(k - 1) : \A r \in Idx : ~Has(j, r)
                   /\ \E r \in Idx :
                        /\ Has(k, r)
                        /\ \A q \in Idx : Has(k, q) => r <= q
                        /\ topPID = procs[r].PID
              /\ (\E r \in Idx : procs[r].PID = 1) => topPID = 1

\* no pid pinned, the first record of the store has parentPid 0 and a pid
\* other than 1, a later record has pid 1: the root chosen is 1
C6_Witness ==
    /\ RootChosen
    /\ config.SearchPid = -1
    /\ procs[0].PPID = 0 /\ procs[0].PID # 1
    /\ \E r \in Idx : r > 0 /\ procs[r].PID = 1 /\ procs[r].PPID # 0
    /\ topPID = 1

(***************************************************************************)
(* C7 - the end-to-end example                                             *)
(***************************************************************************)
\* the records the lines were printed for, in the order of the lines
Emitted == [k \in 1..Len(out) |-> out[k].idx]

\* C7: for the store (1,0), (2,1), (3,2) with show-all on, ASCII, 80 columns
\* and 100 levels, RenderTree prints exactly three lines, for the pids 1, 2
\* and 3 in this order, each with its pid as five digits, the second and the
\* third further to the right than the line of their parent.
C7_EndToEndThreeLines ==
    ( /\ Rendered
      /\ N = 3
      /\ \A k \in 0..2 : procs[k].PID = k + 1 /\ procs[k].PPID = k
      /\ config.AOption
      /\ config.Graphics = GraphicsASCII
      /\ config.Columns = 80
      /\ config.MaxLDepth = 100 )
    => /\ Emitted = <<0, 1, 2>>
       /\ Contains(out[1].line, <<"0", "0", "0", "0", "1">>)
       /\ Contains(out[2].line, <<"0", "0", "0", "0", "2">>)
       /\ Contains(out[3].line, <<"0", "0", "0", "0", "3">>)
       /\ Len(out[2].head) > Len(out[1].head)
       /\ Len(out[3].head) > Len(out[2].head)

(***************************************************************************)
(* C8 - the order of the lines                                             *)
(***************************************************************************)
RECURSIVE PreOrder(_, _)
RECURSIVE PreOrderChain(_, _)
\* the selected records under idx, idx first, each child's listing in chain
\* order, down to the level MaxLDepth (idx is at level depth, the root at 1)
PreOrder(idx, depth) ==
    IF ~procs[idx].Print \/ depth > config.MaxLDepth THEN << >>
    ELSE <<idx>> \o PreOrderChain(procs[idx].ChildIdx, depth + 1)

PreOrderChain(c, depth) ==
    IF c = -1 THEN << >>
    ELSE PreOrder(c, depth) \o PreOrderChain(procs[c].SisterIdx, depth)

\* C8: the records printTree prints a line for, in the order of the lines,
\* are the depth-first pre-order listing, children in sibling-chain order, of
\* the selected records reachable from the root within the depth bound, each
\* of them once (for a depth bound of 0 or more: a negative one never cuts).
C8_LinesInPreOrder ==
    (Rendered /\ rootIdx # -1 /\ config.MaxLDepth >= 0) =>
      /\ Emitted = PreOrder(rootIdx, 1)
      /\ \A k, m \in 1..Len(out) : out[k].idx = out[m].idx => k = m

\* a render two levels deep that printed a root and two children of it and
\* left out a selected record of the third level
C8_Witness ==
    /\ Rendered
    /\ config.MaxLDepth = 2
    /\ Len(out) >= 3
    /\ out[2].idx # -1 /\ procs[out[2].idx].ParentIdx = rootIdx
    /\ procs[out[3].idx].ParentIdx = rootIdx
    /\ \E r \in Selected :
         /\ procs[r].ParentIdx = out[2].idx
         /\ \A k \in 1..Len(out) : out[k].idx # r

(***************************************************************************)
(* C9 - the selection check on the root of the walk                        *)
(***************************************************************************)
\* C9, as claimed (show-all off): with a max depth of 1 or more, printTree
\* called on the root of the walk with an empty head prints the line of that
\* record, selected or not.
C9_RootAlwaysPrintedAsClaimed ==
    (Rendered /\ rootIdx # -1 /\ config.MaxLDepth >= 1 /\ ~config.AOption) =>
      (Len(out) >= 1 /\ out[1].idx = rootIdx)

\* C9, amended: with a max depth of 1 or more (and columns of 1 or more),
\* printTree called on the root of the walk with an empty head prints the
\* line of that record exactly when the record is selected; for a root that
\* is not selected it returns at once and the render prints nothing.
C9_RootPrintedIffSelected ==
    (Rendered /\ rootIdx # -1 /\ config.MaxLDepth >= 1 /\ config.Columns >= 1) =>
      /\ procs[rootIdx].Print <=> (Len(out) >= 1 /\ out[1].idx = rootIdx)
      /\ ~procs[rootIdx].Print => out = << >>

\* show-all off, some record selected, the root of the walk not: the render
\* is over and has printed nothing
C9_Witness ==
    /\ Rendered
    /\ ~config.AOption
    /\ config.MaxLDepth >= 1
    /\ rootIdx # -1
    /\ ~procs[rootIdx].Print
    /\ Selected # {}
    /\ out = << >>

(***************************************************************************)
(* C10 - the head of the lines                                             *)
(***************************************************************************)
\* the head the line of record r was printed with
HeadOf(r) == out[CHOOSE k \in 1..Len(out) : out[k].idx = r].head

\* C10: the root is printed with an empty head, and every record below it
\* with the head of its parent followed by the vertical glyph and a space
\* when the parent has a later sibling, by two spaces when it has none; so
\* the head of a record below the root is not empty and extends its parent's.
C10_HeadExtendsParentHead ==
    \A k \in 1..Len(out) :
      IF out[k].idx = rootIdx THEN out[k].head = EmptyStr
      ELSE LET par == procs[out[k].idx].ParentIdx IN
           /\ out[k].head =
                 HeadOf(par) \o (IF procs[par].SisterIdx # -1
                                 THEN TreeChar(config).Bar \o <<" ">>
                                 ELSE <<" ", " ">>)
           /\ out[k].head # EmptyStr
           /\ Len(out[k].head) > Len(HeadOf(par))

(***************************************************************************)
(* C11 - the depth bound                                                   *)
(***************************************************************************)
RECURSIVE LevelOf(_, _)
\* the level of record r in the walk: the root of the walk is at level 1,
\* a child one level below its parent (at most fuel steps up)
LevelOf(r, fuel) ==
    IF r = rootIdx \/ procs[r].ParentIdx = -1 \/ fuel = 0 THEN 1
    ELSE 1 + LevelOf(procs[r].ParentIdx, fuel - 1)

\* C11: with a max depth d of 0 or more, no line is printed for a record
\* whose level under the root of the walk (the root at level 1) is above d;
\* with d = 1 the only line there can be is the root's, and with d = 0 there
\* is none.
C11_NoLineBelowMaxDepth ==
    (RootChosen /\ config.MaxLDepth >= 0) =>
      /\ \A k \in 1..Len(out) : LevelOf(out[k].idx, N) <= config.MaxLDepth
      /\ config.MaxLDepth = 1 =>
            (Len(out) <= 1 /\ \A k \in 1..Len(out) : out[k].idx = rootIdx)
      /\ config.MaxLDepth = 0 => out = << >>

\* a render with max depth 1 of a selected chain five levels deep: the one
\* line printed is the root's
C11_Witness ==
    /\ Rendered
    /\ config.MaxLDepth = 1
    /\ Len(out) = 1 /\ out[1].idx = rootIdx
    /\ \E r \in Selected : LevelOf(r, N) = 5

(***************************************************************************)
(* C12 - the cut at columns - 1                                            *)
(***************************************************************************)
\* the line as printTree assembles it for the k-th line printed
Assembled(k) == printLine(procs, config, out[k].idx, out[k].head)

\* C12: with columns of 1 or more, every line printed is the assembled line
\* when that has at most columns - 1 bytes, and otherwise its first
\* columns - 1 bytes; no line printed has more than columns - 1 bytes.
C12_LineCutAtColumns ==
    config.Columns >= 1 =>
      \A k \in 1..Len(out) :
        /\ Len(out[k].line) <= config.Columns - 1
        /\ Len(Assembled(k)) <= config.Columns - 1 => out[k].line = Assembled(k)
        /\ Len(Assembled(k)) > config.Columns - 1 =>
              /\ Len(out[k].line) = config.Columns - 1
              /\ \A j \in 1..(config.Columns - 1) : out[k].line[j] = Assembled(k)[j]

\* 10 columns and an assembled line of 19 bytes or more: its first 9 bytes
\* are printed
C12_Witness ==
    /\ config.Columns = 10
    /\ config.Graphics = GraphicsASCII
    /\ \E k \in 1..Len(out) :
         /\ Len(Assembled(k)) >= 19
         /\ Len(out[k].line) = 9
         /\ out[k].line = SubSeq(Assembled(k), 1, 9)

(***************************************************************************)
(* C14 - dropProcs run twice                                               *)
(***************************************************************************)
\* C14: dropProcs run again on the store it has just been run on changes no
\* firstChildIndex and no nextSiblingIndex.
C14_DropProcsTwice ==
    AfterDrop =>
      \A r \in Idx :
        /\ dropProcs(procs)[r].ChildIdx = procs[r].ChildIdx
        /\ dropProcs(procs)[r].SisterIdx = procs[r].SisterIdx

\* dropProcs has run on a store where a selected record has selected and
\* unselected children, and a second run gives the same store
C14_Witness ==
    /\ AfterDrop
    /\ \E r \in Selected :
         /\ Children(BeforeDrop, r) \cap Selected # {}
         /\ Children(BeforeDrop, r) \ Selected # {}
    /\ dropProcs(procs) = procs

(***************************************************************************)
(* C15 - markProcs in any order, and twice                                 *)
(***************************************************************************)
RECURSIVE OrdersOf(_)
\* the sequences that list every record of S once
OrdersOf(S) ==
    IF S = {} THEN { << >> }
    ELSE UNION { { <<x>> \o o : o \in OrdersOf(S \ {x}) } : x \in S }

\* the orders in which the records of the store can be visited
Orders == OrdersOf(Idx)

\* the store before markProcs: no record selected
Unmarked == [k \in Idx |-> [procs[k] EXCEPT !.Print = FALSE]]

\* C15: after markProcs, the flags are those that the iterations of markProcs
\* give in any order of the records, and the iterations run once more, in
\* store order, change nothing.
C15_MarkOrderAndTwice ==
    AfterMark =>
      /\ \A o \in Orders : markProcsIn(Unmarked, config, myPID, o) = procs
      /\ markProcsIn(procs, config, myPID, [k \in 1..N |-> k - 1]) = procs

\* show-all off, two base matches of which one is above the other and has a
\* second child, and a record that is not selected
C15_Witness ==
    /\ AfterMark
    /\ ~config.AOption
    /\ \E a, b \in BaseMatches :
         /\ a \in Ancestors(procs, b)
         /\ Cardinality(Children(procs, a)) >= 2
    /\ Selected # Idx

(***************************************************************************)
(* C18 - the order of a sibling chain                                      *)
(***************************************************************************)
\* C18: after makeTreeHierarchy the store indices increase along the child
\* chain of every record: a later record with the same parent comes after
\* the earlier ones.
C18_SiblingsInStoreOrder ==
    AfterBuild =>
      \A r \in Idx :
        \A k \in 1..(Len(ChildSeq(procs, r)) - 1) :
          ChildSeq(procs, r)[k] < ChildSeq(procs, r)[k + 1]

\* a record with three children, linked in store order
C18_Witness ==
    /\ AfterBuild
    /\ \E r \in Idx :
         /\ Len(ChildSeq(procs, r)) = 3
         /\ ChildSeq(procs, r)[1] < ChildSeq(procs, r)[2]
         /\ ChildSeq(procs, r)[2] < ChildSeq(procs, r)[3]

(***************************************************************************)
(* C19 - the base matches                                                  *)
(***************************************************************************)
\* the four criteria, for the record r of the store
OwnerEquals(r) == config.SearchOwner # EmptyStr /\ procs[r].Owner = config.SearchOwner
ExcludeRootOwned(r) == config.UOption /\ procs[r].Owner # StrRoot
PidEquals(r) == config.SearchPid # -1 /\ procs[r].PID = config.SearchPid
Substring(r) ==
    /\ config.SearchStr # EmptyStr
    /\ \E k \in 1..Len(procs[r].Cmd) :
         /\ k + Len(config.SearchStr) - 1 <= Len(procs[r].Cmd)
         /\ \A j \in 1..Len(config.SearchStr) :
              procs[r].Cmd[k + j - 1] = config.SearchStr[j]
    /\ procs[r].PID # myPID

\* C19: with show-all off, markProcs treats the record it visits as a base
\* match (it goes on to mark its ancestors and descendants) exactly when one
\* of the four criteria holds for it; a text that occurs in the command line
\* of the tool's own record does not make that record a base match.
C19_BaseMatchIsAnyCriterion ==
    [][ (pc = "mark" /\ ~config.AOption) =>
          ( pc' = "markParents" <=>
              (OwnerEquals(i) \/ ExcludeRootOwned(i) \/ PidEquals(i) \/ Substring(i)) )
      ]_vars

\* a substring search has marked a store where the text occurs in the command
\* line of the tool's own record and of another one: the other record is
\* selected, the tool's own is not
C19_Witness ==
    /\ AfterMark
    /\ ~config.AOption
    /\ config.SearchStr # EmptyStr
    /\ \E r, q \in Idx :
         /\ procs[r].PID = myPID
         /\ Contains(procs[r].Cmd, config.SearchStr)
         /\ ~procs[r].Print
         /\ procs[q].PID # myPID
         /\ Contains(procs[q].Cmd, config.SearchStr)
         /\ procs[q].Print

(***************************************************************************)
(* C20 - the store is fixed, the links are indices                         *)
(***************************************************************************)
\* the fields of a record that the loader sets and no phase may change
IdentityOf(rec) == <<rec.PID, rec.PPID, rec.PGID, rec.Owner, rec.Cmd, rec.ThreadCount>>

\* every link of the store is none or an index of the store
LinksValid ==
    \A r \in Idx :
      /\ procs[r].ParentIdx \in Idx \cup {-1}
      /\ procs[r].ChildIdx \in Idx \cup {-1}
      /\ procs[r].SisterIdx \in Idx \cup {-1}

\* C20: no step after the load, of build, mark, prune and render, changes the length or the
\* order of the store or the pid, parentPid, groupId, owner, commandLine or
\* threadCount of a record, and in every state every parentIndex,
\* firstChildIndex and nextSiblingIndex is -1 or an index of the store.
C20_StoreFixedLinksValid ==
    /\ [][ pc # "main" =>
             /\ DOMAIN procs' = DOMAIN procs
             /\ \A k \in DOMAIN procs : IdentityOf(procs'[k]) = IdentityOf(procs[k])
        ]_vars
    /\ []LinksValid

\* a render of a store of four records or more is over, with links set,
\* records selected and lines printed
C20_Witness ==
    /\ Rendered
    /\ N >= 4
    /\ Len(out) >= 3
    /\ \E r \in Idx : procs[r].ChildIdx # -1 /\ procs[r].Print
    /\ \E r \in Idx : procs[r].SisterIdx # -1

(***************************************************************************)
(* C13 - the pipeline ends                                                 *)
(***************************************************************************)
\* C13: for every store and configuration the pipeline build, mark, prune,
\* root selection, render comes to an end (it completes or exits), also on
\* stores whose parentPid values form a cycle.
C13_PipelineFinishes == <>Finished

(***************************************************************************)
(* C16 - no root                                                           *)
(***************************************************************************)
\* no record of the store has pid 1, parentPid 0, parentPid 1 or pid = parentPid
NoRootCandidate ==
    \A r \in Idx :
      /\ procs[r].PID # 1
      /\ procs[r].PPID # 0
      /\ procs[r].PPID # 1
      /\ procs[r].PID # procs[r].PPID

\* the run ended in RunE, on the error a loader returned
LoadFailed == pc = "exit1" /\ logged # << >> /\ logged[Len(logged)] = "Error"

\* C16: with no pid pinned and a store of one record or more of which none
\* has pid 1, parentPid 0, parentPid 1 or pid = parentPid, root selection
\* logs the error and the run ends with exit status 1, no line printed.
C16_NoRootIsFatal ==
    ( /\ pc \in {"print", "done", "panic", "exit1"}
      /\ ~LoadFailed
      /\ N > 0
      /\ config.SearchPid = -1
      /\ NoRootCandidate )
    => /\ pc = "exit1"
       /\ ExitStatus = 1
       /\ out = << >>
       /\ logged # << >> /\ logged[Len(logged)] = "no process found"

\* a store with a selected record and no candidate for the root: the run has
\* ended in os.Exit(1)
C16_Witness ==
    /\ pc = "exit1"
    /\ ~LoadFailed
    /\ N > 0
    /\ config.SearchPid = -1
    /\ NoRootCandidate
    /\ Selected # {}
    /\ out = << >>

(***************************************************************************)
(* C17 - an invalid graphics selector                                      *)
(***************************************************************************)
\* C17: when the graphics selector is outside 0..3, the run logs the error,
\* reads no process, prints nothing and ends with a nonzero exit status.
C17_InvalidGraphicsIsFatal ==
    (pc # "main" /\ invalidGraphics(config)) =>
      /\ logged = <<"invalid graphics parameter">>
      /\ procs = << >>
      /\ out = << >>
      /\ ExitStatus > 0

(***************************************************************************)
(* C21 - the root of a run of the command                                  *)
(***************************************************************************)
\* the command was given one argument and it is a number
PidArgument == Len(args) = 1 /\ Atoi(args[1]).ok

\* C21: when the command is run without a pid argument and the store has a
\* record with pid 1, the first record printed is that record; when it is run
\* with a pid argument that is the pid of a record, the first record printed
\* is that record.
C21_RootedAtInitOrAtPid ==
    (entry = "main" /\ Rendered) =>
      /\ (~PidArgument /\ \E r \in Idx : procs[r].PID = 1) =>
            (Len(out) >= 1 /\ procs[out[1].idx].PID = 1)
      /\ (PidArgument /\ \E r \in Idx : procs[r].PID = Atoi(args[1]).val) =>
            (Len(out) >= 1 /\ procs[out[1].idx].PID = Atoi(args[1]).val)


(***************************************************************************)
(* C22 - the width of the pid field                                        *)
(***************************************************************************)
\* line k of the output is the whole assembled line, nothing cut off
Untruncated(k) == out[k].line = Assembled(k)

\* the position of the blank that ends the graphic part of line k: the
\* first blank after the start sequence and the head (the glyphs hold none)
GraphicEnd(k) ==
    LET from == Len(TreeChar(config).SG) + Len(out[k].head) + 1
    IN CHOOSE q \in from..Len(out[k].line) :
          /\ out[k].line[q] = " "
          /\ \A r \in from..(q - 1) : out[k].line[r] # " "

\* the pid field of an untruncated line k: the text between the blank after
\* the graphic part and the next blank
PidField(k) ==
    LET l == out[k].line
        a == GraphicEnd(k)
        b == CHOOSE q \in (a + 1)..Len(l) :
                /\ l[q] = " "
                /\ \A r \in (a + 1)..(q - 1) : l[r] # " "
    IN SubSeq(l, a + 1, b - 1)

AllDigits(s) == \A q \in 1..Len(s) : s[q] \in {"0", "1", "2", "3", "4", "5", "6", "7", "8", "9"}

\* C22 as stated: in every emitted, untruncated line the pid field is exactly
\* 5 digits wide, also for pids of 100000 and above.
C22_PidFieldFiveWideAsClaimed ==
    \A k \in 1..Len(out) :
        Untruncated(k) => (AllDigits(PidField(k)) /\ Len(PidField(k)) = 5)

\* C22: in every emitted, untruncated line the pid field is the record's pid
\* in decimal, padded with zeros on the left to a width of at least 5: it is
\* 5 digits wide for a pid of 0..99999 and as wide as the pid's own digits
\* (6 and more) for a pid of 100000 and above.
C22_PidFieldAtLeastFiveWide ==
    \A k \in 1..Len(out) :
        (Untruncated(k) /\ procs[out[k].idx].PID >= 0) =>
            LET f == PidField(k)
                pid == procs[out[k].idx].PID
            IN /\ AllDigits(f)
               /\ AtoiDigits(f, 0) = pid
               /\ Len(f) = IF pid <= 99999 THEN 5 ELSE Len(Digits(pid))

\* an untruncated line of a record whose pid has six digits was printed, and
\* an untruncated line of a record whose pid is padded with zeros as well
C22_Witness ==
    /\ \E k \in 1..Len(out) :
          Untruncated(k) /\ procs[out[k].idx].PID = 100000 /\ Len(PidField(k)) = 6
    /\ \E k \in 1..Len(out) :
          Untruncated(k) /\ procs[out[k].idx].PID = 1 /\ Len(PidField(k)) = 5

(***************************************************************************)
(* C23 - the links after makeTreeHierarchy and cycles                      *)
(***************************************************************************)
\* the records one step down from the records of S: their first children and
\* their next siblings
LinkStep(p, S) ==
    ({ p[x].ChildIdx : x \in S } \cup { p[x].SisterIdx : x \in S }) \ {-1}

RECURSIVE LinkClosure(_, _, _)
\* the records reached from the records of S through any number of
\* first-child and next-sibling links (fuel steps are enough for fuel records)
LinkClosure(p, S, fuel) ==
    IF fuel = 0 THEN S
    ELSE LinkClosure(p, S \cup LinkStep(p, S), fuel - 1)

\* the records reached from r through one or more child or sibling links
BelowOrBeside(p, r) == LinkClosure(p, LinkStep(p, {r}), NProc(p))

\* C23: after makeTreeHierarchy on any store the links form a forest: no
\* record is its own ancestor along parentIndex, and no record is reached
\* from itself through firstChildIndex / nextSiblingIndex links.
C23_LinksFormForest ==
    AfterBuild =>
      \A r \in Idx :
        /\ r \notin Ancestors(procs, r)
        /\ r \notin BelowOrBeside(procs, r)

(***************************************************************************)
(* C24 - the fallback from a pid to a text and the argument it reads       *)
(***************************************************************************)
\* RunE stopped in a run-time panic before RenderTree was called
RunEPanicked == entry = "main" /\ pc = "panic" /\ stack = << >>

\* C24: in a run of the command, the fallback that turns a search pid absent
\* from the store into a text search never reads a positional argument that
\* was not given: no argument list and no non-empty store make RunE abort
\* with an index out of range.
C24_FallbackReadsNoMissingArgument == ~RunEPanicked

(***************************************************************************)
(* C25 - the record rendering starts from, when no pid is pinned           *)
(***************************************************************************)
\* the first of the four criteria of getTopPID that some record meets
WinningCriterion ==
    CHOOSE k \in 1..4 :
        /\ firstWith(procs, k, 0) # -1
        /\ \A j \in 1..(k - 1) : firstWith(procs, j, 0) = -1

\* C25: when no pid is pinned, the record rendering starts from meets the
\* winning criterion of the root choice itself (pid = 1, else parentPid = 0,
\* else parentPid = 1, else pid = parentPid), also when a later record of the
\* store carries the pid of the chosen root.
C25_StartRecordMeetsCriterion ==
    (RootChosen /\ config.SearchPid = -1 /\ rootIdx # -1) =>
        TopCriterion(WinningCriterion, procs[rootIdx])

(***************************************************************************)
(* C26 - the selected set and the parent links                             *)
(***************************************************************************)
\* no record is its own ancestor along the parent links
Acyclic == \A r \in Idx : r \notin Ancestors(procs, r)

\* the selected records with no parent
SelectedRoots == { r \in Selected : procs[r].ParentIdx = -1 }

RECURSIVE SelectedClosure(_, _)
\* the selected records reached from the records of S through child and
\* sibling links, every record on the way selected
SelectedClosure(S, fuel) ==
    IF fuel = 0 THEN S
    ELSE SelectedClosure(S \cup (LinkStep(procs, S) \cap Selected), fuel - 1)

\* C26 as stated: with show-all off, after markProcs on an acyclic forest a
\* selected record's parent is selected, and every selected record is reached
\* from a selected parentless record through child and sibling links that
\* pass through selected records only.
C26_SelectedReachedThroughSelectedAsClaimed ==
    (AfterMark /\ ~config.AOption /\ Acyclic) =>
      /\ \A r \in Selected :
            procs[r].ParentIdx # -1 => procs[r].ParentIdx \in Selected
      /\ Selected \subseteq SelectedClosure(SelectedRoots, N)

\* C26: with show-all off, after markProcs on an acyclic forest the selected
\* set is closed under parent; hence every selected record has a selected
\* parentless record above it (or is one), all the records between them are
\* selected, and it stands on the child chain of its parent: it is reached
\* from that root going down from parent to child, where the sibling chain
\* walked to get to a child may pass through records that are not selected.
C26_SelectedClosedUnderParent ==
    (AfterMark /\ ~config.AOption /\ Acyclic) =>
      \A r \in Selected :
        /\ procs[r].ParentIdx # -1 =>
              /\ procs[r].ParentIdx \in Selected
              /\ r \in Children(procs, procs[r].ParentIdx)
        /\ Ancestors(procs, r) \subseteq Selected
        /\ \E t \in SelectedRoots : t = r \/ t \in Ancestors(procs, r)

\* markProcs has selected a record two levels below its root whose parent's
\* child chain gets to it only past a sibling that is not selected
C26_Witness ==
    /\ AfterMark
    /\ ~config.AOption
    /\ Acyclic
    /\ \E r \in Selected :
         /\ Cardinality(Ancestors(procs, r)) >= 2
         /\ r \notin SelectedClosure(SelectedRoots, N)
         /\ \E s \in Children(procs, procs[r].ParentIdx) \ Selected :
               procs[s].SisterIdx = r

(***************************************************************************)
(* C27 - the shared depth counter is balanced                              *)
(***************************************************************************)
\* a step in which the running call of printTree returns
CallReturns == pc = "print" /\ Len(stack') < Len(stack)

\* C27: the shared depth counter is balanced: when a call of printTree
\* returns (after its line, rejected by the selection test or cut by the
\* depth bound) the counter is what it was when the call began; it is 0
\* before and after a whole render; and during a render with a max depth of 0
\* or more it stays within 0..max depth.
C27_DepthCounterBalanced ==
    /\ [][CallReturns => atLDepth' = Top.depth0]_vars
    /\ [](pc \notin {"print", "panic"} => atLDepth = 0)
    /\ []((pc \in {"print", "panic"} /\ config.MaxLDepth >= 0 /\ stack # << >>)
             => atLDepth \in 0..config.MaxLDepth)

\* a render is over and the counter is back at 0 after calls of the three
\* kinds: a child's line was printed, a child that is not selected was
\* rejected, and a selected child of a record at the last level was cut
C27_Witness ==
    /\ Rendered
    /\ atLDepth = 0
    /\ config.MaxLDepth >= 2
    /\ Len(out) >= 2
    /\ \E k \in 1..Len(out) : \E c \in Children(procs, out[k].idx) : ~procs[c].Print
    /\ \E k \in 1..Len(out) :
         /\ LevelOf(out[k].idx, N) = config.MaxLDepth
         /\ \E c \in Children(procs, out[k].idx) : procs[c].Print

(***************************************************************************)
(* C28 - the has-children glyph and the selected children                  *)
(***************************************************************************)
\* the number of bytes of line k before its has-children / leaf glyph: the
\* start sequence, the head and the bar
BeforeGlyph(k) ==
    LET tc == TreeChar(config)
        bar == IF out[k].head = EmptyStr THEN EmptyStr
               ELSE IF procs[out[k].idx].SisterIdx # -1 THEN tc.BarC
               ELSE tc.BarL
    IN Len(tc.SG) + Len(out[k].head) + Len(bar)

\* line k was printed at least up to the end of its glyph
GlyphPrinted(k) == Len(out[k].line) >= BeforeGlyph(k) + Len(TreeChar(config).P)

\* the glyph of line k, as printed
GlyphOf(k) ==
    SubSeq(out[k].line, BeforeGlyph(k) + 1, BeforeGlyph(k) + Len(TreeChar(config).P))

\* the selected children of record r
SelectedChildren(r) == { c \in Children(procs, r) : procs[c].Print }

\* C28: after mark and prune, a line printed carries the has-children glyph
\* (TreeChars.P) exactly when its record has at least one selected child and
\* the leaf glyph (TreeChars.S2) otherwise; no record printed has children
\* none of which is selected, so none is drawn with the wrong glyph.
C28_GlyphTellsSelectedChildren ==
    RootChosen =>
      \A k \in 1..Len(out) :
        /\ GlyphPrinted(k) =>
              GlyphOf(k) = IF SelectedChildren(out[k].idx) # {}
                           THEN TreeChar(config).P
                           ELSE TreeChar(config).S2
        /\ Children(procs, out[k].idx) # {} => SelectedChildren(out[k].idx) # {}

\* a render has printed, with its glyph, a record that has a selected child
\* and a child that is not selected, drawn with P, and a record with no
\* child, drawn with S2
C28_Witness ==
    /\ Rendered
    /\ \E k \in 1..Len(out) :
         /\ GlyphPrinted(k)
         /\ SelectedChildren(out[k].idx) # {}
         /\ Children(procs, out[k].idx) \ SelectedChildren(out[k].idx) # {}
         /\ GlyphOf(k) = TreeChar(config).P
    /\ \E k \in 1..Len(out) :
         /\ GlyphPrinted(k)
         /\ Children(procs, out[k].idx) = {}
         /\ GlyphOf(k) = TreeChar(config).S2

(***************************************************************************)
(* C29 - the range of config.Columns after CalculateTerminalWidth          *)
(***************************************************************************)
\* RunE has called CalculateTerminalWidth: the run is in RenderTree or past it
WidthCalculated ==
    /\ entry = "main"
    /\ \/ pc \in {"render", "build", "mark", "markParents", "drop", "root", "print", "done"}
       \/ pc = "panic" /\ stack # << >>
       \/ pc = "exit1" /\ logged # << >> /\ logged[Len(logged)] = "no process found"

\* C29: after CalculateTerminalWidth, for every width the detection can give
\* (0, a negative value of the COLUMNS variable, 8192 and more)
\* config.Columns lies in 1..8191, so the bound Columns-1 of the cut in
\* printTree is never negative.
C29_ColumnsInRange == WidthCalculated => config.Columns \in 1..(maxLine - 1)

(***************************************************************************)
(* C30 - each phase writes its own fields only                             *)
(***************************************************************************)
\* the three links of a record
LinksOf(rec) == <<rec.ParentIdx, rec.ChildIdx, rec.SisterIdx>>

\* C30: each phase writes only its own fields: makeTreeHierarchy changes no
\* selected flag; markProcs changes no parentIndex, firstChildIndex or
\* nextSiblingIndex; dropProcs changes no selected flag and no parentIndex
\* and leaves every link of a record that is not selected as it was; the root
\* choice and printTree change no field of any record.
C30_PhasesWriteOwnFields ==
    [][ /\ pc = "build" =>
              \A k \in Idx : procs'[k].Print = procs[k].Print
        /\ pc \in {"mark", "markParents"} =>
              \A k \in Idx : LinksOf(procs'[k]) = LinksOf(procs[k])
        /\ pc = "drop" =>
              \A k \in Idx :
                /\ procs'[k].Print = procs[k].Print
                /\ procs'[k].ParentIdx = procs[k].ParentIdx
                /\ ~procs[k].Print => LinksOf(procs'[k]) = LinksOf(procs[k])
        /\ pc \in {"root", "print"} => procs' = procs
      ]_vars

\* dropProcs has run on a store where a selected record's first child is not
\* selected and has a sibling after it: the child still has its links
C30_Witness ==
    /\ AfterDrop
    /\ \E r \in Selected :
         /\ procs[r].ChildIdx # -1
         /\ ~procs[procs[r].ChildIdx].Print
         /\ procs[procs[r].ChildIdx].SisterIdx # -1
         /\ procs[procs[r].ChildIdx].ParentIdx = r
    /\ \E r \in Idx : ~procs[r].Print /\ procs[r].ChildIdx # -1
====
